---- MODULE Spec2Model ----
(***************************************************************************)
(* Model of the plan execution engine of ai-web-executor                   *)
(* (src/app/executor.py, src/app/config.py, src/app/schemas.py).           *)
(*                                                                         *)
(* Strings are sequences of one-character strings.  A run of run_plan is   *)
(* a state machine whose steps are the browser-driver calls the code makes *)
(* (each returns or raises, chosen by the environment) and the pure        *)
(* decisions between them.                                                 *)
(***************************************************************************)
EXTENDS Integers, Sequences, FiniteSets, TLC

\* ------------------------------------------------------------------ bounds
MaxPlanLen == 2
MaxRetriesCfg == 2
MaxUrlLen == 5
\* The longest string the credential helpers are called with.
MaxValLen == 5
\* The largest retry budget of the runs that look at the backoff schedule,
\* and the largest max_retries plan_with_bedrock is called with.
MaxAttempts == 4
\* The most pieces a selector handed to the locator resolver is made of.
MaxSelPieces == 3

\* --------------------------------------------------------- string helpers
\* Python's None, kept apart from every string (strings hold one-character items).
None == <<"None">>

\* Python truthiness of an Optional[str]: None and "" are falsy.
Falsy(v) == v = None \/ v = <<>>

Lower(c) == CASE c = "A" -> "a" [] c = "B" -> "b" [] OTHER -> c

LowerStr(s) == [i \in 1..Len(s) |-> Lower(s[i])]

EndsWith(s, suffix) ==
    /\ Len(suffix) <= Len(s)
    /\ SubSeq(s, Len(s) - Len(suffix) + 1, Len(s)) = suffix

\* Index of the first occurrence of c in s, 0 when absent (str.find + 1).
Find(s, c) ==
    IF \E i \in 1..Len(s) : s[i] = c
    THEN CHOOSE i \in 1..Len(s) : s[i] = c /\ \A j \in 1..(i - 1) : s[j] # c
    ELSE 0

\* Index of the last occurrence of c in s, 0 when absent (str.rfind + 1).
RFind(s, c) ==
    IF \E i \in 1..Len(s) : s[i] = c
    THEN CHOOSE i \in 1..Len(s) : s[i] = c /\ \A j \in (i + 1)..Len(s) : s[j] # c
    ELSE 0

Contains(s, c) == \E i \in 1..Len(s) : s[i] = c

IsSpace(c) == c = " "

\* str.strip(): drop leading and trailing white space.
RECURSIVE LStrip(_)
LStrip(s) == IF s # <<>> /\ IsSpace(Head(s)) THEN LStrip(Tail(s)) ELSE s

RECURSIVE RStrip(_)
RStrip(s) ==
    IF s # <<>> /\ IsSpace(s[Len(s)]) THEN RStrip(SubSeq(s, 1, Len(s) - 1)) ELSE s

Strip(s) == RStrip(LStrip(s))

\* str.split(","): always at least one piece, empty pieces are kept.
RECURSIVE Split(_)
Split(s) ==
    LET i == Find(s, ",")
    IN  IF i = 0 THEN <<s>>
        ELSE <<SubSeq(s, 1, i - 1)>> \o Split(SubSeq(s, i + 1, Len(s)))

\* ------------------------------------------------------------ config.py
\* ALLOWED_DOMAINS as computed from the environment string.
AllowedDomainsOf(env) ==
    LET parts == Split(env)
    IN  [i \in 1..Len(parts) |-> LowerStr(Strip(parts[i]))]

\* ------------------------------------------------- urllib.parse.urlparse
IsAlpha(c) == c \in {"a", "b", "A", "B"}

IsSchemeChar(c) == IsAlpha(c)

\* The URL with a leading "scheme:" removed, when it has one.
AfterScheme(url) ==
    LET i == Find(url, ":")
    IN  IF /\ i > 1
           /\ IsAlpha(url[1])
           /\ \A j \in 1..(i - 1) : IsSchemeChar(url[j])
        THEN SubSeq(url, i + 1, Len(url))
        ELSE url

\* netloc: what follows a leading "//" up to the next "/".
Netloc(url) ==
    LET rest == AfterScheme(url)
    IN  IF Len(rest) >= 2 /\ rest[1] = "/" /\ rest[2] = "/"
        THEN LET tail == SubSeq(rest, 3, Len(rest))
                 d    == Find(tail, "/")
             IN  IF d = 0 THEN tail ELSE SubSeq(tail, 1, d - 1)
        ELSE <<>>

\* urlparse raises ValueError("Invalid IPv6 URL") on an unbalanced bracket.
UrlMalformed(url) ==
    LET n == Netloc(url)
    IN  \/ Contains(n, "[") /\ ~Contains(n, "]")
        \/ Contains(n, "]") /\ ~Contains(n, "[")

\* ParseResult.hostname of a well-formed URL: None or a non-empty string.
Hostname(url) ==
    LET n        == Netloc(url)
        at       == RFind(n, "@")
        hostinfo == SubSeq(n, at + 1, Len(n))
        colon    == Find(hostinfo, ":")
        host     == IF colon = 0 THEN hostinfo ELSE SubSeq(hostinfo, 1, colon - 1)
    IN  IF host = <<>> THEN None ELSE LowerStr(host)

\* ---------------------------------------------------------- Domain Guard
_domain_allowed(url, allowed) ==
    IF UrlMalformed(url) THEN FALSE
    ELSE LET h    == Hostname(url)
             host == LowerStr(IF h = None THEN <<>> ELSE h)
         IN  \E i \in 1..Len(allowed) : EndsWith(host, allowed[i])

\* ------------------------------------------------------------ schemas.py
Action(t, sel, val) == [type |-> t, selector |-> sel, value |-> val]

UrlA == <<"/", "/", "a">>
UrlB == <<"/", "/", "B", "/">>
Sel  == <<"#", "x">>

\* The actions plans are built from: every handler of run_plan, with and
\* without the fields its handler asks for.
\* "hover" is a type outside ActionType, which a Plan built without
\* validation can carry; it reaches the handlers' final else branch.
ActionSet ==
    { Action("navigate", None, UrlA),
      Action("navigate", None, UrlB),
      Action("navigate", None, None),
      Action("wait", None, None),
      Action("wait_for_selector", Sel, None),
      Action("fill", Sel, <<"v">>),
      Action("select", Sel, <<"v">>),
      Action("press_key", None, None),
      Action("click", Sel, None),
      Action("click", None, None),
      Action("assert_title", None, <<"D">>),
      Action("hover", None, None) }

\* Every sequence over S of length at most n.
SeqsUpTo(S, n) == UNION {[1..k -> S] : k \in 0..n}

Plans == SeqsUpTo(ActionSet, MaxPlanLen)

\* Page titles the browser may report to assert_title.
Titles == {<<"D", "x">>, <<"L">>}

\* Python's `sub in s` on strings.
IsSubstr(sub, s) ==
    \E i \in 0..(Len(s) - Len(sub)) : SubSeq(s, i + 1, i + Len(sub)) = sub

\* ------------------------------------------------------------- the state
VARIABLES
    MAX_RETRIES,            \* config.MAX_RETRIES, read from the environment
    ALLOWED_DOMAINS,        \* config.ALLOWED_DOMAINS
    SCREENSHOT_ON_FAILURE,  \* config.SCREENSHOT_ON_FAILURE
    plan,                   \* plan.actions
    pc,                     \* where run_plan is
    ip,                     \* next call of the INIT or the teardown sequence
    step_num,               \* enumerate(plan.actions, start=1)
    todo,                   \* the driver calls the current handler has left
    attempt,                \* _retry_action's loop variable
    exc,                    \* the exception in flight, NoFault when none
    outcome,                \* "running", "returned" or "raised"
    calls,                  \* every call made so far, in order
    artifacts,              \* the files written under artifacts/
    open,                   \* browser resources the run opened
    closed,                 \* browser resources closed by an explicit close()
    dispatched,             \* the step numbers the loop entered, in order
    completed,              \* the steps logged "completed successfully"
    failed_step,            \* the step whose handler raised, 0 when none
    first_fault,            \* the exception that step raised
    retry_log,              \* outcomes of func() in the current _retry_action call
    retry_res,              \* how that call ended
    sleeps,                 \* the time.sleep() arguments of that call, in ms
    retry_at,               \* the step and the function of that call
    guard_url,              \* Domain Guard check: the URL asked about
    guard_res,              \* Domain Guard check: the answer
    credentials,            \* run_plan's credentials: <<[key, val], ...>> in dict order
    arg,                    \* the argument of a helper called on its own
    ret,                    \* what that helper returned
    log,                    \* the logger.info lines of the fill handler, in order
    delivered,              \* the values handed to the browser by fill_action
    is_combobox,            \* what fill_action's attribute probe found
    runs,                   \* runs of run_plan executing side by side
    fs,                     \* the files written so far, and by which run
    planner                 \* plan_with_bedrock: budget, loop variable, history, result

cfgvars   == <<MAX_RETRIES, ALLOWED_DOMAINS, SCREENSHOT_ON_FAILURE, plan>>
retryvars == <<attempt, retry_log, retry_res, sleeps, retry_at>>
guardvars == <<guard_url, guard_res>>
fillvars  == <<log, delivered, is_combobox>>
parvars   == <<runs, fs>>
extvars   == <<credentials, arg, ret, fillvars, parvars, planner>>
histvars  == <<dispatched, completed, failed_step, first_fault>>
resvars   == <<open, closed>>
vars == <<cfgvars, pc, ip, step_num, todo, exc, outcome, calls, artifacts,
          resvars, histvars, retryvars, guardvars, extvars>>

\* ------------------------------------------------------------- exceptions
Fault(kind, msg, inv) == [kind |-> kind, msg |-> msg, inv |-> inv]

NoFault == Fault("none", "", 0)

\* The exception of a driver call made outside _retry_action.  Its class
\* (a timeout or another driver error) changes nothing there: either fails
\* the step, so one kind stands for both.
DriverError(op) == Fault("Error", op, 0)

Call(op, step) == [op |-> op, step |-> step]

RETRY_DELAY_MS == 1000

\* --------------------------------------------------------------- run_plan
InitCalls ==
    <<"launch", "new_context", "set_default_timeout",
      "set_default_navigation_timeout", "new_page", "tracing.start">>

TeardownCalls == <<"tracing.stop", "page.close", "context.close", "browser.close">>

Opens(op) ==
    CASE op = "launch"      -> {"browser"}
      [] op = "new_context" -> {"context"}
      [] op = "new_page"    -> {"page"}
      [] OTHER              -> {}

Closes(op) ==
    CASE op = "page.close"    -> {"page"}
      [] op = "context.close" -> {"context"}
      [] op = "browser.close" -> {"browser"}
      [] OTHER                -> {}

\* The functions handed to _retry_action.
RetriedOps == {"goto", "wait_for", "fill_action", "select_action", "click_action"}

\* Faulty variant of Validate: the navigate handler forgets the Domain Guard.
ValidateNoGuard(a, allowed) ==
    CASE a.type = "navigate" ->
            IF Falsy(a.value)
            THEN Fault("ValueError", "Navigate action requires a URL value", 0)
            ELSE NoFault
      [] a.type = "wait_for_selector" ->
            IF Falsy(a.value) /\ Falsy(a.selector)
            THEN Fault("ValueError", "wait_for_selector requires a selector", 0)
            ELSE NoFault
      [] a.type \in {"fill", "select", "click"} ->
            IF Falsy(a.selector)
            THEN Fault("ValueError", "action requires a selector", 0)
            ELSE NoFault
      [] OTHER -> NoFault

\* The fault a handler raises before it touches the browser, NoFault when none.
Validate(a, allowed) ==
    CASE a.type = "navigate" ->
            IF Falsy(a.value)
            THEN Fault("ValueError", "Navigate action requires a URL value", 0)
            ELSE IF ~_domain_allowed(a.value, allowed)
            THEN Fault("ValueError", "Domain not allowed", 0)
            ELSE NoFault
      [] a.type = "wait_for_selector" ->
            IF Falsy(a.value) /\ Falsy(a.selector)
            THEN Fault("ValueError", "wait_for_selector requires a selector", 0)
            ELSE NoFault
      [] a.type \in {"fill", "select", "click"} ->
            IF Falsy(a.selector)
            THEN Fault("ValueError", "action requires a selector", 0)
            ELSE NoFault
      [] OTHER -> NoFault

\* Faulty variant of HandlerCalls: every handler, the one of an unrecognized
\* type included, takes a screenshot.
HandlerCallsAlwaysShot(a) == <<"screenshot">>

\* The driver calls a handler makes once its action is validated, in order.
HandlerCalls(a) ==
    CASE a.type = "navigate"          -> <<"goto", "screenshot">>
      [] a.type = "wait"              -> <<"wait_for_timeout", "screenshot">>
      [] a.type = "wait_for_selector" -> <<"wait_for">>
      [] a.type = "fill"              -> <<"fill_action", "screenshot">>
      [] a.type = "select"            -> <<"select_action", "screenshot">>
      [] a.type = "press_key"         -> <<"keyboard.press", "wait_for_timeout">>
      [] a.type = "click"             -> <<"click_action", "screenshot">>
      [] a.type = "assert_title"      -> <<"title">>
      [] OTHER                        -> <<>>

\* The name of a step's success screenshot, after "step_<NN>_".
ShotName(a) == IF a.type = "fill" THEN "fill_input" ELSE a.type

File(step, name) == [step |-> step, name |-> name]

\* ---------------------------------------------------------- _retry_action
\* Faulty variant of IsRetryable: every exception is caught and retried.
IsRetryableAll(kind) == TRUE

\* `except PlaywrightTimeoutError`: the one class of failure that is retried.
IsRetryable(kind) == kind = "TimeoutError"

\* Faulty variant of NextAttempt: the loop variable does not advance.
NextAttemptStuck(att) == att

\* `for attempt in range(max_retries)`: the value of the next iteration.
NextAttempt(att) == att + 1

\* Faulty variants of IsLastAttempt: giving up one attempt early, and never
\* recognising the last attempt.
IsLastAttemptEarly(att, max_retries) == att >= max_retries - 2

IsLastAttemptNever(att, max_retries) == FALSE

\* `if attempt == max_retries - 1`
IsLastAttempt(att, max_retries) == att = max_retries - 1

\* Faulty variant of WaitTime: the delay does not grow.
WaitTimeConstant(delay_ms, att) == delay_ms

\* delay_ms * 2 ** attempt, in milliseconds
WaitTime(delay_ms, att) == delay_ms * (2 ^ att)

\* What the att-th invocation of func() returns, and what it raises.
RetVal(op, att) == <<op, att>>

Raised(op, kind, att) == Fault(kind, op, att)

Running == [kind |-> "running", val |-> None, exc |-> NoFault]

Returned(v) == [kind |-> "return", val |-> v, exc |-> NoFault]

Threw(e) == [kind |-> "raise", val |-> None, exc |-> e]

\* ------------------------------------------------------------------- Init
\* run_plan's default credential map, in dict order.  The two secrets are
\* config.TEST_USERNAME and config.TEST_PASSWORD.
Cred(key, val) == [key |-> key, val |-> val]

DefaultCredentials ==
    <<Cred(<<"U">>, <<"s">>), Cred(<<"P">>, <<"t">>)>>

\* plan_with_bedrock is not being called.
NoPlanner ==
    [max_retries |-> 0, attempt |-> 0, log |-> <<>>, sleeps |-> <<>>,
     res |-> Running]

\* The state of the parts of the model a specification does not exercise.
ExtInit ==
    /\ credentials = DefaultCredentials
    /\ arg = <<>>
    /\ ret = <<>>
    /\ log = <<>>
    /\ delivered = <<>>
    /\ is_combobox = FALSE
    /\ runs = <<>>
    /\ fs = {}
    /\ planner = NoPlanner

RunInit ==
    /\ ExtInit
    /\ MAX_RETRIES \in 0..MaxRetriesCfg
    /\ ALLOWED_DOMAINS = AllowedDomainsOf(<<"a">>)
    /\ SCREENSHOT_ON_FAILURE \in BOOLEAN
    /\ plan \in Plans
    /\ pc = "init"
    /\ ip = 1
    /\ step_num = 0
    /\ todo = <<>>
    /\ attempt = 0
    /\ exc = NoFault
    /\ outcome = "running"
    /\ calls = <<>>
    /\ artifacts = {}
    /\ open = {}
    /\ closed = {}
    /\ dispatched = <<>>
    /\ completed = {}
    /\ failed_step = 0
    /\ first_fault = NoFault
    /\ retry_log = <<>>
    /\ retry_res = Running
    /\ sleeps = <<>>
    /\ retry_at = Call("", 0)
    /\ guard_url = <<>>
    /\ guard_res = FALSE

\* ------------------------------------------------------------- the actions
\* One call of the INIT sequence.  A call that raises leaves run_plan at
\* once: the try block is not entered yet, so no teardown runs.
InitCall(ok) ==
    /\ pc = "init"
    /\ calls' = Append(calls, Call(InitCalls[ip], 0))
    /\ IF ok
       THEN /\ open' = open \cup Opens(InitCalls[ip])
            /\ IF ip = Len(InitCalls)
               THEN pc' = "loop" /\ ip' = 1
               ELSE pc' = "init" /\ ip' = ip + 1
            /\ UNCHANGED <<exc, outcome>>
       ELSE /\ exc' = DriverError(InitCalls[ip])
            /\ pc' = "done"
            /\ outcome' = "raised"
            /\ UNCHANGED <<open, ip>>
    /\ UNCHANGED <<cfgvars, step_num, todo, artifacts, closed, histvars,
                   retryvars, guardvars, extvars>>

\* The handler's exception reaches `except Exception as step_error`.
StepRaises(e, k) ==
    /\ exc' = e
    /\ first_fault' = e
    /\ failed_step' = k
    /\ pc' = "except"

\* Where the handler of step k starts, given the calls it has to make.
Continue(rest, k) ==
    /\ todo' = rest
    /\ IF rest # <<>> /\ Head(rest) \in RetriedOps
       THEN /\ pc' = "retry"
            /\ attempt' = 0
            /\ retry_log' = <<>>
            /\ retry_res' = Running
            /\ sleeps' = <<>>
            /\ retry_at' = Call(Head(rest), k)
       ELSE /\ pc' = "handler"
            /\ UNCHANGED retryvars

\* The loop takes the next action and its handler validates it.
StepBegin ==
    /\ pc = "loop"
    /\ step_num < Len(plan)
    /\ step_num' = step_num + 1
    /\ dispatched' = Append(dispatched, step_num + 1)
    /\ LET a == plan[step_num + 1]
           e == Validate(a, ALLOWED_DOMAINS)
       IN  /\ calls' = IF a.type = "navigate" /\ ~Falsy(a.value)
                       THEN Append(calls, Call("_domain_allowed", step_num + 1))
                       ELSE calls
           /\ IF e # NoFault
              THEN /\ StepRaises(e, step_num + 1)
                   /\ UNCHANGED <<todo, retryvars>>
              ELSE /\ Continue(HandlerCalls(a), step_num + 1)
                   /\ UNCHANGED <<exc, first_fault, failed_step>>
    /\ UNCHANGED <<cfgvars, ip, outcome, artifacts, resvars, completed, guardvars, extvars>>

\* One pass of _retry_action's loop: func() is invoked and returns, times
\* out or raises another error.
RetryIter(res) ==
    /\ pc = "retry"
    /\ attempt < MAX_RETRIES
    /\ LET op   == Head(todo)
           kind == IF res = "timeout" THEN "TimeoutError" ELSE "Error"
           e    == Raised(op, kind, attempt)
       IN  /\ calls' = Append(calls, Call(op, step_num))
           /\ retry_log' = Append(retry_log, res)
           /\ IF res = "ok"
              THEN /\ retry_res' = Returned(RetVal(op, attempt))
                   /\ todo' = Tail(todo)
                   /\ pc' = "handler"
                   /\ UNCHANGED <<attempt, sleeps, exc, first_fault, failed_step>>
              ELSE IF IsRetryable(kind) /\ ~IsLastAttempt(attempt, MAX_RETRIES)
              THEN /\ sleeps' = Append(sleeps, WaitTime(RETRY_DELAY_MS, attempt))
                   /\ attempt' = NextAttempt(attempt)
                   /\ UNCHANGED <<retry_res, todo, pc, exc, first_fault, failed_step>>
              ELSE /\ retry_res' = Threw(e)
                   /\ StepRaises(e, step_num)
                   /\ UNCHANGED <<attempt, sleeps, todo>>
    /\ UNCHANGED <<cfgvars, ip, step_num, outcome, artifacts, resvars,
                   dispatched, completed, guardvars, retry_at, extvars>>

\* range(max_retries) is used up without a return or a raise: the function
\* falls off its end and returns None.
RetryFallsThrough ==
    /\ pc = "retry"
    /\ attempt >= MAX_RETRIES
    /\ retry_res' = Returned(None)
    /\ todo' = Tail(todo)
    /\ pc' = "handler"
    /\ UNCHANGED <<cfgvars, ip, step_num, attempt, retry_log, sleeps, retry_at, exc,
                   outcome, calls, artifacts, resvars, histvars, guardvars, extvars>>

\* A driver call the handler makes itself, outside _retry_action: it
\* returns, or raises and fails the step.  A success screenshot writes its file.
DirectCall(ok) ==
    /\ pc = "handler"
    /\ todo # <<>>
    /\ Head(todo) \notin RetriedOps
    /\ ok => Head(todo) # "title"
    /\ calls' = Append(calls, Call(Head(todo), step_num))
    /\ IF ok
       THEN /\ todo' = Tail(todo)
            /\ artifacts' = IF Head(todo) = "screenshot"
                            THEN artifacts \cup {File(step_num, ShotName(plan[step_num]))}
                            ELSE artifacts
            /\ UNCHANGED <<pc, exc, first_fault, failed_step>>
       ELSE /\ StepRaises(DriverError(Head(todo)), step_num)
            /\ UNCHANGED <<todo, artifacts>>
    /\ UNCHANGED <<cfgvars, ip, step_num, outcome, resvars, dispatched, completed,
                   retryvars, guardvars, extvars>>

\* assert_title: page.title() returns `actual` and the handler compares.
AssertTitle(actual) ==
    /\ pc = "handler"
    /\ todo # <<>>
    /\ Head(todo) = "title"
    /\ calls' = Append(calls, Call("title", step_num))
    /\ LET expected == plan[step_num].value
       IN  IF expected = None
           THEN /\ StepRaises(Fault("TypeError", "'in <string>' requires string", 0), step_num)
                /\ UNCHANGED todo
           ELSE IF ~IsSubstr(expected, actual)
           THEN /\ StepRaises(Fault("AssertionError", "Title mismatch", 0), step_num)
                /\ UNCHANGED todo
           ELSE /\ todo' = Tail(todo)
                /\ UNCHANGED <<pc, exc, first_fault, failed_step>>
    /\ UNCHANGED <<cfgvars, ip, step_num, outcome, artifacts, resvars, dispatched,
                   completed, retryvars, guardvars, extvars>>

\* The handler is through: "Step N completed successfully".
StepEnd ==
    /\ pc = "handler"
    /\ todo = <<>>
    /\ completed' = completed \cup {step_num}
    /\ pc' = "loop"
    /\ UNCHANGED <<cfgvars, ip, step_num, todo, exc, outcome, calls, artifacts,
                   resvars, dispatched, failed_step, first_fault, retryvars, guardvars, extvars>>

\* Faulty variant of ExceptHandler: the failed step is logged and the loop
\* goes on to the next action.
ExceptHandlerContinue(ok) ==
    /\ pc = "except"
    /\ SCREENSHOT_ON_FAILURE \/ ok
    /\ IF SCREENSHOT_ON_FAILURE
       THEN /\ calls' = Append(calls, Call("screenshot", step_num))
            /\ IF ok
               THEN /\ artifacts' = artifacts \cup {File(step_num, "FAILURE")}
                    /\ UNCHANGED exc
               ELSE /\ exc' = DriverError("screenshot")
                    /\ UNCHANGED artifacts
       ELSE UNCHANGED <<calls, artifacts, exc>>
    /\ pc' = "loop"
    /\ UNCHANGED <<cfgvars, ip, step_num, todo, outcome, resvars, histvars,
                   retryvars, guardvars, extvars>>

\* `except Exception as step_error`: the failure screenshot, then `raise`.
\* A screenshot that raises replaces the step's exception.
ExceptHandler(ok) ==
    /\ pc = "except"
    /\ SCREENSHOT_ON_FAILURE \/ ok
    /\ IF SCREENSHOT_ON_FAILURE
       THEN /\ calls' = Append(calls, Call("screenshot", step_num))
            /\ IF ok
               THEN /\ artifacts' = artifacts \cup {File(step_num, "FAILURE")}
                    /\ UNCHANGED exc
               ELSE /\ exc' = DriverError("screenshot")
                    /\ UNCHANGED artifacts
       ELSE UNCHANGED <<calls, artifacts, exc>>
    /\ pc' = "finally"
    /\ ip' = 1
    /\ UNCHANGED <<cfgvars, step_num, todo, outcome, resvars, histvars,
                   retryvars, guardvars, extvars>>

\* The loop is used up: "Plan execution completed successfully".
PlanCompleted ==
    /\ pc = "loop"
    /\ step_num = Len(plan)
    /\ pc' = "finally"
    /\ ip' = 1
    /\ UNCHANGED <<cfgvars, step_num, todo, exc, outcome, calls, artifacts,
                   resvars, histvars, retryvars, guardvars, extvars>>

\* One call of the `finally` block.  A call that raises ends the block: its
\* exception replaces the one in flight and the calls after it are not made.
TeardownCall(ok) ==
    /\ pc = "finally"
    /\ calls' = Append(calls, Call(TeardownCalls[ip], 0))
    /\ IF ok
       THEN /\ closed' = closed \cup Closes(TeardownCalls[ip])
            /\ artifacts' = IF TeardownCalls[ip] = "tracing.stop"
                            THEN artifacts \cup {File(0, "trace.zip")}
                            ELSE artifacts
            /\ IF ip = Len(TeardownCalls)
               THEN /\ pc' = "done"
                    /\ outcome' = IF exc = NoFault THEN "returned" ELSE "raised"
                    /\ UNCHANGED ip
               ELSE /\ ip' = ip + 1
                    /\ UNCHANGED <<pc, outcome>>
            /\ UNCHANGED exc
       ELSE /\ exc' = DriverError(TeardownCalls[ip])
            /\ pc' = "done"
            /\ outcome' = "raised"
            /\ UNCHANGED <<closed, artifacts, ip>>
    /\ UNCHANGED <<cfgvars, step_num, todo, open, histvars, retryvars, guardvars, extvars>>

RunNext ==
    \/ \E ok \in BOOLEAN : InitCall(ok)
    \/ StepBegin
    \/ \E res \in {"ok", "timeout", "error"} : RetryIter(res)
    \/ RetryFallsThrough
    \/ \E ok \in BOOLEAN : DirectCall(ok)
    \/ \E actual \in Titles : AssertTitle(actual)
    \/ StepEnd
    \/ \E ok \in BOOLEAN : ExceptHandler(ok)
    \/ PlanCompleted
    \/ \E ok \in BOOLEAN : TeardownCall(ok)

Spec == RunInit /\ [][RunNext]_vars

\* ------------------------------------------- the Domain Guard on its own
\* Values of the ALLOWED_DOMAINS environment variable: the entries a, b and
\* the forms a hand-written list takes (spaces, capitals, a trailing comma,
\* an empty value).
EnvStrings ==
    { <<"a">>,
      <<"a", ",", "B">>,
      <<" ", "B", " ">>,
      <<"a", "b">>,
      <<"a", ",">>,
      <<>> }

UrlChars == {"a", "B", "/", ":", "@", "["}

Urls == SeqsUpTo(UrlChars, MaxUrlLen)

GuardInit ==
    /\ ExtInit
    /\ MAX_RETRIES = 0
    /\ ALLOWED_DOMAINS \in {AllowedDomainsOf(env) : env \in EnvStrings}
    /\ SCREENSHOT_ON_FAILURE = FALSE
    /\ plan = <<>>
    /\ pc = "guard"
    /\ ip = 1
    /\ step_num = 0
    /\ todo = <<>>
    /\ attempt = 0
    /\ exc = NoFault
    /\ outcome = "running"
    /\ calls = <<>>
    /\ artifacts = {}
    /\ open = {}
    /\ closed = {}
    /\ dispatched = <<>>
    /\ completed = {}
    /\ failed_step = 0
    /\ first_fault = NoFault
    /\ retry_log = <<>>
    /\ retry_res = Running
    /\ sleeps = <<>>
    /\ retry_at = Call("", 0)
    /\ guard_url \in Urls
    /\ guard_res = FALSE

\* One call of _domain_allowed, on the URL the caller holds.
GuardCall ==
    /\ pc = "guard"
    /\ guard_res' = _domain_allowed(guard_url, ALLOWED_DOMAINS)
    /\ pc' = "guard_done"
    /\ UNCHANGED <<cfgvars, ip, step_num, todo, exc, outcome, calls, artifacts,
                   resvars, histvars, retryvars, guard_url, extvars>>

GuardNext == GuardCall

SpecGuard == GuardInit /\ [][GuardNext]_vars

\* --------------------------------------- the credential helpers on their own
\* The masking symbol of _mask, U+2022, written as an ASCII character.
Bullet == "*"

\* Python's str.replace(old, new) for a non-empty `old`: the leftmost
\* occurrences, not overlapping, scanned once from the left.
RECURSIVE Replace(_, _, _)
Replace(s, old, new) ==
    IF Len(s) < Len(old) THEN s
    ELSE IF SubSeq(s, 1, Len(old)) = old
         THEN new \o Replace(SubSeq(s, Len(old) + 1, Len(s)), old, new)
         ELSE <<s[1]>> \o Replace(Tail(s), old, new)

\* f"{{{{{key}}}}}"
Placeholder(key) == <<"{", "{">> \o key \o <<"}", "}">>

\* The loop of _inject_credentials over credentials.items(): one
\* replacement per entry, each applied to the result of the ones before it.
RECURSIVE InjectLoop(_, _)
InjectLoop(value, items) ==
    IF items = <<>> THEN value
    ELSE LET placeholder == Placeholder(items[1].key)
             replaced == IF IsSubstr(placeholder, value)
                         THEN Replace(value, placeholder, items[1].val)
                         ELSE value
         IN  InjectLoop(replaced, Tail(items))

_inject_credentials(value, creds) ==
    IF value = <<>> THEN value ELSE InjectLoop(value, creds)

\* re.sub(r".", Bullet, s): the dot matches every character but a line feed.
DotMatches(c) == c # "\n"

_mask(s) ==
    IF s = <<>> THEN s
    ELSE [i \in 1..Len(s) |-> IF DotMatches(s[i]) THEN Bullet ELSE s[i]]

\* The values and the credential maps the helpers are called with.
InjChars == {"{", "}", "U", "T", "s"}

InjValues == SeqsUpTo(InjChars, MaxValLen)

CredMaps ==
    { <<>>,
      DefaultCredentials,
      <<Cred(<<"U">>, <<"s">>)>>,
      <<Cred(<<"U">>, Placeholder(<<"T">>)), Cred(<<"T">>, <<"s">>)>>,
      <<Cred(<<"T">>, <<"s">>), Cred(<<"U">>, Placeholder(<<"T">>))>> }

MaskChars == {"a", "\n", Bullet}

MaskInputs == SeqsUpTo(MaskChars, MaxValLen)

\* No run of run_plan is in progress.
NoRun ==
    /\ MAX_RETRIES = 0
    /\ ALLOWED_DOMAINS = <<>>
    /\ SCREENSHOT_ON_FAILURE = FALSE
    /\ plan = <<>>
    /\ ip = 1
    /\ step_num = 0
    /\ todo = <<>>
    /\ attempt = 0
    /\ exc = NoFault
    /\ outcome = "running"
    /\ calls = <<>>
    /\ artifacts = {}
    /\ open = {}
    /\ closed = {}
    /\ dispatched = <<>>
    /\ completed = {}
    /\ failed_step = 0
    /\ first_fault = NoFault
    /\ retry_log = <<>>
    /\ retry_res = Running
    /\ sleeps = <<>>
    /\ retry_at = Call("", 0)
    /\ guard_url = <<>>
    /\ guard_res = FALSE

HelperInit ==
    /\ NoRun
    /\ \/ pc = "inject" /\ arg \in InjValues /\ credentials \in CredMaps
       \/ pc = "mask" /\ arg \in MaskInputs /\ credentials = <<>>
    /\ ret = <<>>
    /\ log = <<>>
    /\ delivered = <<>>
    /\ is_combobox = FALSE
    /\ runs = <<>>
    /\ fs = {}
    /\ planner = NoPlanner

\* One call of _inject_credentials.
InjectCall ==
    /\ pc = "inject"
    /\ ret' = _inject_credentials(arg, credentials)
    /\ pc' = "inject_done"
    /\ UNCHANGED <<cfgvars, ip, step_num, todo, exc, outcome, calls, artifacts,
                   resvars, histvars, retryvars, guardvars, credentials, arg,
                   fillvars, parvars, planner>>

\* One call of _mask.
MaskCall ==
    /\ pc = "mask"
    /\ ret' = _mask(arg)
    /\ pc' = "mask_done"
    /\ UNCHANGED <<cfgvars, ip, step_num, todo, exc, outcome, calls, artifacts,
                   resvars, histvars, retryvars, guardvars, credentials, arg,
                   fillvars, parvars, planner>>

HelperNext == InjectCall \/ MaskCall

SpecHelpers == HelperInit /\ [][HelperNext]_vars

\* ------------------------------------------------ the fill handler in detail
\* One logger call: the source line, and the values interpolated into it.
\* The text of an exception is taken not to hold the value being filled.
LogLine(src, fields) == [src |-> src, fields |-> fields]

\* `action.value or ""`
OrEmpty(v) == IF Falsy(v) THEN <<>> ELSE v

\* `action.selector or action.value`
OrElse(a, b) == IF Falsy(a) THEN b ELSE a

\* The placeholders the fill handler treats as sensitive, "{{USERNAME}}" and
\* "{{PASSWORD}}"; the model writes the two names U and P.
SensitivePlaceholders == {Placeholder(<<"U">>), Placeholder(<<"P">>)}

IsSensitive(raw) == \E ph \in SensitivePlaceholders : IsSubstr(ph, OrEmpty(raw))

DisplayValue(raw, creds) ==
    IF IsSensitive(raw)
    THEN _mask(_inject_credentials(OrEmpty(raw), creds))
    ELSE _inject_credentials(OrEmpty(raw), creds)

\* screenshot_name of the fill handler, as step, kind and the masked value.
FillFile(step, raw, creds) ==
    [step |-> step,
     name |-> IF IsSensitive(raw) THEN "fill" ELSE "fill_input",
     masked |-> IF IsSensitive(raw)
                THEN _mask(_inject_credentials(OrEmpty(raw), creds))
                ELSE <<>>]

FailureFile(step) == [step |-> step, name |-> "FAILURE", masked |-> <<>>]

\* Faulty variant of TypedText: the display value reaches the browser.
TypedTextMasked(value, display_value) == display_value

\* The text fill_action passes to locator.type and to the plain locator.fill.
TypedText(value, display_value) == value

Delivery(op, text, combobox, att) ==
    [op |-> op, text |-> text, combobox |-> combobox, attempt |-> att]

\* The calls of one invocation of fill_action that hand text to the browser,
\* up to and including the call that raises (`until`), all of them when
\* nothing raises or when a call after them raises.
Deliveries(combobox, raw, creds, att, until) ==
    LET text == TypedText(_inject_credentials(OrEmpty(raw), creds),
                          DisplayValue(raw, creds))
    IN  IF until = "focus" THEN <<>>
        ELSE IF combobox
        THEN IF until = "clear"
             THEN <<Delivery("fill", <<>>, TRUE, att)>>
             ELSE <<Delivery("fill", <<>>, TRUE, att),
                    Delivery("type", text, TRUE, att)>>
        ELSE IF until = "wait_for" THEN <<>>
        ELSE <<Delivery("fill", text, FALSE, att)>>

\* The calls of fill_action that can raise, on each path.
FailPoints(combobox) ==
    IF combobox THEN {"focus", "clear", "type", "after"}
    ELSE {"focus", "wait_for", "fill"}

PH(name) == Placeholder(<<name>>)

FillValues ==
    { None, <<>>, <<"x">>, PH("U"), PH("P"), PH("T"),
      <<"x">> \o PH("U"), PH("U") \o PH("T"), PH("T") \o <<"x">> }

FillCredMaps ==
    { DefaultCredentials,
      <<Cred(<<"T">>, <<"k">>)>>,
      <<Cred(<<"U">>, <<"s", "\n", "k">>), Cred(<<"P">>, <<"t">>)>>,
      <<Cred(<<"U">>, <<"s">>), Cred(<<"T">>, <<"k">>)>> }

FillInit ==
    /\ MAX_RETRIES \in 0..MaxRetriesCfg
    /\ ALLOWED_DOMAINS = <<>>
    /\ SCREENSHOT_ON_FAILURE \in BOOLEAN
    /\ \E sel \in {Sel, None} : \E v \in FillValues :
            plan = <<Action("fill", sel, v)>>
    /\ credentials \in FillCredMaps
    /\ pc = "fill"
    /\ ip = 1
    /\ step_num = 1
    /\ todo = <<>>
    /\ attempt = 0
    /\ exc = NoFault
    /\ outcome = "running"
    /\ calls = <<>>
    /\ artifacts = {}
    /\ open = {}
    /\ closed = {}
    /\ dispatched = <<1>>
    /\ completed = {}
    /\ failed_step = 0
    /\ first_fault = NoFault
    /\ retry_log = <<>>
    /\ retry_res = Running
    /\ sleeps = <<>>
    /\ retry_at = Call("", 0)
    /\ guard_url = <<>>
    /\ guard_res = FALSE
    /\ arg = <<>>
    /\ ret = <<>>
    /\ log = <<>>
    /\ delivered = <<>>
    /\ is_combobox = FALSE
    /\ runs = <<>>
    /\ fs = {}
    /\ planner = NoPlanner

\* What the fill actions leave alone.
fillrest == <<cfgvars, ip, step_num, todo, outcome, calls, open, closed,
              dispatched, completed, failed_step, first_fault, retry_log,
              retry_res, sleeps, retry_at, guardvars, credentials, arg, ret,
              parvars, planner>>

\* Lines 145 and 183-190: the step's log line, the selector check, the
\* substitution and the "Filling ..." log line.
FillBegin ==
    /\ pc = "fill"
    /\ LET a == plan[step_num]
           line145 == LogLine(145, <<OrEmpty(OrElse(a.selector, a.value))>>)
       IN  IF Falsy(a.selector)
           THEN /\ log' = Append(log, line145)
                /\ exc' = Fault("ValueError", "action requires a selector", 0)
                /\ pc' = "fill_except"
           ELSE /\ log' = log \o <<line145,
                            LogLine(189, <<a.selector, DisplayValue(a.value, credentials)>>)>>
                /\ exc' = exc
                /\ pc' = "fill_retry"
    /\ attempt' = 0
    /\ UNCHANGED <<fillrest, artifacts, delivered, is_combobox>>

\* One iteration of _retry_action(fill_action): the probe finds a combobox or
\* not, and the calls of fill_action run until one raises.
FillAttempt(combobox, res, until) ==
    /\ pc = "fill_retry"
    /\ attempt < MAX_RETRIES
    /\ (res = "ok") = (until = "")
    /\ is_combobox' = combobox
    /\ IF res = "ok"
       THEN /\ delivered' = delivered
                    \o Deliveries(combobox, plan[step_num].value, credentials, attempt, "")
            /\ pc' = "fill_shot"
            /\ UNCHANGED <<attempt, exc, log>>
       ELSE /\ until \in FailPoints(combobox)
            /\ delivered' = delivered
                    \o Deliveries(combobox, plan[step_num].value, credentials, attempt, until)
            /\ LET kind == IF res = "timeout" THEN "TimeoutError" ELSE "Error"
               IN  IF IsRetryable(kind) /\ ~IsLastAttempt(attempt, MAX_RETRIES)
                   THEN /\ log' = Append(log, LogLine(104, <<>>))
                        /\ attempt' = NextAttempt(attempt)
                        /\ UNCHANGED <<pc, exc>>
                   ELSE /\ log' = Append(log,
                                    LogLine(IF IsRetryable(kind) THEN 101 ELSE 108, <<>>))
                        /\ exc' = Fault(kind, until, attempt)
                        /\ pc' = "fill_except"
                        /\ UNCHANGED attempt
    /\ UNCHANGED <<fillrest, artifacts>>

\* range(max_retries) is used up without a call having returned or raised.
FillFallsThrough ==
    /\ pc = "fill_retry"
    /\ attempt >= MAX_RETRIES
    /\ pc' = "fill_shot"
    /\ UNCHANGED <<fillrest, attempt, exc, log, artifacts, delivered, is_combobox>>

\* Lines 216-217 and 262: the success screenshot.
FillScreenshot(ok) ==
    /\ pc = "fill_shot"
    /\ IF ok
       THEN /\ artifacts' = artifacts
                    \cup {FillFile(step_num, plan[step_num].value, credentials)}
            /\ log' = Append(log, LogLine(262, <<>>))
            /\ pc' = "fill_done"
            /\ exc' = exc
       ELSE /\ exc' = DriverError("screenshot")
            /\ pc' = "fill_except"
            /\ UNCHANGED <<artifacts, log>>
    /\ UNCHANGED <<fillrest, attempt, delivered, is_combobox>>

\* Lines 263-269: the step's except clause.
FillExcept(ok) ==
    /\ pc = "fill_except"
    /\ IF SCREENSHOT_ON_FAILURE
       THEN IF ok
            THEN /\ artifacts' = artifacts \cup {FailureFile(step_num)}
                 /\ log' = log \o <<LogLine(264, <<>>), LogLine(268, <<>>)>>
                 /\ exc' = exc
            ELSE /\ log' = Append(log, LogLine(264, <<>>))
                 /\ exc' = DriverError("screenshot")
                 /\ UNCHANGED artifacts
       ELSE /\ ok
            /\ log' = Append(log, LogLine(264, <<>>))
            /\ UNCHANGED <<artifacts, exc>>
    /\ pc' = "fill_raised"
    /\ UNCHANGED <<fillrest, attempt, delivered, is_combobox>>

FillNext ==
    \/ FillBegin
    \/ \E combobox \in BOOLEAN : \E res \in {"ok", "timeout", "error"} :
       \E until \in {"", "focus", "clear", "type", "after", "wait_for", "fill"} :
            FillAttempt(combobox, res, until)
    \/ FillFallsThrough
    \/ \E ok \in BOOLEAN : FillScreenshot(ok)
    \/ \E ok \in BOOLEAN : FillExcept(ok)

SpecFill == FillInit /\ [][FillNext]_vars

\* ------------------------------------- runs over every shape of an action
\* The action types of the schema.
ActionTypes ==
    {"navigate", "fill", "click", "wait_for_selector", "assert_title", "wait",
     "select", "press_key"}

\* Each action type with its fields present, and with a field left out.
StepActions ==
    { Action("navigate", None, UrlA),
      Action("navigate", None, None),
      Action("wait", None, None),
      Action("wait_for_selector", Sel, None),
      Action("wait_for_selector", None, Sel),
      Action("wait_for_selector", None, None),
      Action("fill", Sel, <<"v">>),
      Action("fill", Sel, None),
      Action("fill", None, <<"v">>),
      Action("select", Sel, <<"v">>),
      Action("select", Sel, None),
      Action("select", None, <<"v">>),
      Action("press_key", None, None),
      Action("click", Sel, None),
      Action("click", None, None),
      Action("assert_title", None, <<"D">>),
      Action("assert_title", None, None),
      Action("hover", Sel, None) }

StepsInit ==
    /\ ExtInit
    /\ MAX_RETRIES \in {0, MaxRetriesCfg}
    /\ ALLOWED_DOMAINS = AllowedDomainsOf(<<"a">>)
    /\ SCREENSHOT_ON_FAILURE \in BOOLEAN
    /\ plan \in SeqsUpTo(StepActions, MaxPlanLen)
    /\ pc = "init"
    /\ ip = 1
    /\ step_num = 0
    /\ todo = <<>>
    /\ attempt = 0
    /\ exc = NoFault
    /\ outcome = "running"
    /\ calls = <<>>
    /\ artifacts = {}
    /\ open = {}
    /\ closed = {}
    /\ dispatched = <<>>
    /\ completed = {}
    /\ failed_step = 0
    /\ first_fault = NoFault
    /\ retry_log = <<>>
    /\ retry_res = Running
    /\ sleeps = <<>>
    /\ retry_at = Call("", 0)
    /\ guard_url = <<>>
    /\ guard_res = FALSE

SpecSteps == StepsInit /\ [][RunNext]_vars

\* ------------------------------------------------- two runs side by side
\* Faulty variant of ArtifactPath: the artifacts root does not depend on the
\* working directory.
ArtifactPathFixedRoot(cwd, file) == [dir |-> "/", file |-> file]

\* Path("artifacts") / name: a relative path, resolved against the working
\* directory of the process that runs run_plan.
ArtifactPath(cwd, file) == [dir |-> cwd, file |-> file]

\* The working directories: the first run is started in "d1", the second in
\* the same directory or in another one.
Dirs == {"d1", "d2"}

ParActions ==
    { Action("navigate", None, None),
      Action("wait_for_selector", Sel, None),
      Action("click", Sel, None) }

Run(cwd, actions) == [cwd |-> cwd, plan |-> actions, step |-> 0, pc |-> "loop"]

Written(r, file) == [path |-> ArtifactPath(runs[r].cwd, file), by |-> r]

ParInit ==
    /\ NoRun
    /\ credentials = DefaultCredentials
    /\ arg = <<>>
    /\ ret = <<>>
    /\ log = <<>>
    /\ delivered = <<>>
    /\ is_combobox = FALSE
    /\ pc = "par"
    /\ \E c2 \in Dirs : \E p1, p2 \in SeqsUpTo(ParActions, MaxPlanLen) :
            runs = <<Run("d1", p1), Run(c2, p2)>>
    /\ fs = {}
    /\ planner = NoPlanner

parrest == <<cfgvars, pc, ip, step_num, todo, exc, outcome, calls, artifacts,
             resvars, histvars, retryvars, guardvars, credentials, arg, ret,
             fillvars, planner>>

\* Run r executes its next step: on success the handler's screenshot, if it
\* takes one, is written; on failure the run leaves the loop, after the
\* failure screenshot when that is enabled and written (`shot`).
ParStep(r, ok, shot) ==
    /\ runs[r].pc = "loop"
    /\ runs[r].step < Len(runs[r].plan)
    /\ LET k == runs[r].step + 1
           a == runs[r].plan[k]
       IN  IF ok /\ Validate(a, AllowedDomainsOf(<<"a">>)) = NoFault
           THEN /\ runs' = [runs EXCEPT ![r].step = k]
                /\ fs' = IF \E i \in 1..Len(HandlerCalls(a)) :
                                HandlerCalls(a)[i] = "screenshot"
                         THEN fs \cup {Written(r, File(k, ShotName(a)))}
                         ELSE fs
           ELSE /\ runs' = [runs EXCEPT ![r].step = k, ![r].pc = "finally"]
                /\ fs' = IF shot
                         THEN fs \cup {Written(r, File(k, "FAILURE"))}
                         ELSE fs
    /\ UNCHANGED parrest

\* Run r has no action left.
ParPlanCompleted(r) ==
    /\ runs[r].pc = "loop"
    /\ runs[r].step = Len(runs[r].plan)
    /\ runs' = [runs EXCEPT ![r].pc = "finally"]
    /\ UNCHANGED <<parrest, fs>>

\* The finally block of run r: tracing.stop writes the trace archive.
ParTeardown(r) ==
    /\ runs[r].pc = "finally"
    /\ runs' = [runs EXCEPT ![r].pc = "done"]
    /\ fs' = fs \cup {Written(r, File(0, "trace.zip"))}
    /\ UNCHANGED parrest

ParNext ==
    \E r \in 1..2 :
        \/ \E ok, shot \in BOOLEAN : ParStep(r, ok, shot)
        \/ ParPlanCompleted(r)
        \/ ParTeardown(r)

SpecPar == ParInit /\ [][ParNext]_vars

\* ------------------------------------------------- runs that are let to end
\* Every driver call returns or raises in the end, and the code between two
\* calls runs on: a run that can take a step does take one.
LiveActions ==
    { Action("navigate", None, UrlA),
      Action("assert_title", None, <<"D">>),
      Action("hover", Sel, None) }

LiveInit ==
    /\ ExtInit
    /\ MAX_RETRIES \in 0..MaxRetriesCfg
    /\ ALLOWED_DOMAINS = AllowedDomainsOf(<<"a">>)
    /\ SCREENSHOT_ON_FAILURE \in BOOLEAN
    /\ plan \in SeqsUpTo(LiveActions, MaxPlanLen)
    /\ pc = "init"
    /\ ip = 1
    /\ step_num = 0
    /\ todo = <<>>
    /\ attempt = 0
    /\ exc = NoFault
    /\ outcome = "running"
    /\ calls = <<>>
    /\ artifacts = {}
    /\ open = {}
    /\ closed = {}
    /\ dispatched = <<>>
    /\ completed = {}
    /\ failed_step = 0
    /\ first_fault = NoFault
    /\ retry_log = <<>>
    /\ retry_res = Running
    /\ sleeps = <<>>
    /\ retry_at = Call("", 0)
    /\ guard_url = <<>>
    /\ guard_res = FALSE

SpecLive == LiveInit /\ [][RunNext]_vars /\ WF_vars(RunNext)

\* ------------------------------------------- runs with a long retry budget
\* The state run_plan is entered in, for a set of MAX_RETRIES values and a
\* set of actions the plan is made of.
RunStart(retries, actions) ==
    /\ ExtInit
    /\ MAX_RETRIES \in retries
    /\ ALLOWED_DOMAINS = AllowedDomainsOf(<<"a">>)
    /\ SCREENSHOT_ON_FAILURE \in BOOLEAN
    /\ plan \in SeqsUpTo(actions, MaxPlanLen)
    /\ pc = "init"
    /\ ip = 1
    /\ step_num = 0
    /\ todo = <<>>
    /\ attempt = 0
    /\ exc = NoFault
    /\ outcome = "running"
    /\ calls = <<>>
    /\ artifacts = {}
    /\ open = {}
    /\ closed = {}
    /\ dispatched = <<>>
    /\ completed = {}
    /\ failed_step = 0
    /\ first_fault = NoFault
    /\ retry_log = <<>>
    /\ retry_res = Running
    /\ sleeps = <<>>
    /\ retry_at = Call("", 0)
    /\ guard_url = <<>>
    /\ guard_res = FALSE

BackoffInit == RunStart(0..MaxAttempts, LiveActions)

SpecBackoff == BackoffInit /\ [][RunNext]_vars

\* ------------------------------------------------------ _get_robust_locator
\* \w, for the characters selectors are written with here.
IsWordChar(c) ==
    c \in {"a", "b", "c", "e", "i", "l", "n", "o", "r", "s", "t", "u", "x",
           "A", "B", "_"}

\* ['\"]
IsQuote(c) == c \in {"'", "\""}

\* `lit` stands in s at position i.
LitAt(s, i, lit) ==
    /\ i >= 1
    /\ i + Len(lit) - 1 <= Len(s)
    /\ SubSeq(s, i, i + Len(lit) - 1) = lit

\* The same under re.IGNORECASE.
LitAtNoCase(s, i, lit) ==
    /\ i >= 1
    /\ i + Len(lit) - 1 <= Len(s)
    /\ LowerStr(SubSeq(s, i, i + Len(lit) - 1)) = lit

StartsWith(s, prefix) == LitAt(s, 1, prefix)

\* ['\"]([^'\"]+)['\"] at position i: the position of the closing quote, 0
\* when the pattern does not match there.
CloseQuote(s, i) ==
    IF i >= 1 /\ i <= Len(s) /\ IsQuote(s[i])
    THEN LET js == {j \in (i + 2)..Len(s) :
                        IsQuote(s[j]) /\ \A k \in (i + 1)..(j - 1) : ~IsQuote(s[k])}
         IN  IF js = {} THEN 0 ELSE CHOOSE j \in js : TRUE
    ELSE 0

Min(S) == CHOOSE x \in S : \A y \in S : x <= y

KwContains == <<":", "c", "o", "n", "t", "a", "i", "n", "s", "(">>

KwLabel == <<"[", "l", "a", "b", "e", "l", "=">>

KwText == <<"t", "e", "x", "t", "=">>

KwTextarea == <<"t", "e", "x", "t", "a", "r", "e", "a">>

\* The positions of ":contains(" at which (\w+):contains\(['\"]([^'\"]+)['\"]\)
\* matches, the word before it being non-empty.
ContainsAt(s) ==
    {m \in 2..Len(s) :
        /\ IsWordChar(s[m - 1])
        /\ LitAtNoCase(s, m, KwContains)
        /\ CloseQuote(s, m + Len(KwContains)) # 0
        /\ LitAt(s, CloseQuote(s, m + Len(KwContains)) + 1, <<")">>)}

\* group(1).lower() and group(2) of the leftmost match.
ElementType(s) ==
    LET m == Min(ContainsAt(s))
        i == Min({j \in 1..(m - 1) : \A k \in j..(m - 1) : IsWordChar(s[k])})
    IN  LowerStr(SubSeq(s, i, m - 1))

ContainsText(s) ==
    LET q == Min(ContainsAt(s)) + Len(KwContains)
    IN  SubSeq(s, q + 1, CloseQuote(s, q) - 1)

\* The positions of "[label=" at which \w*\[label=['\"]([^'\"]+)['\"]\] matches.
LabelAt(s) ==
    {m \in 1..Len(s) :
        /\ LitAt(s, m, KwLabel)
        /\ CloseQuote(s, m + Len(KwLabel)) # 0
        /\ LitAt(s, CloseQuote(s, m + Len(KwLabel)) + 1, <<"]">>)}

LabelText(s) ==
    LET q == Min(LabelAt(s)) + Len(KwLabel)
    IN  SubSeq(s, q + 1, CloseQuote(s, q) - 1)

\* ^text=['\"]([^'\"]+)['\"]$
TextMatch(s) ==
    /\ StartsWith(s, KwText)
    /\ CloseQuote(s, Len(KwText) + 1) = Len(s)

TextText(s) == SubSeq(s, Len(KwText) + 2, Len(s) - 1)

\* The test of the first `if`: selector.lower().startswith("textarea"),
\* which covers the two literal selectors listed before it.
IsTextarea(s) == StartsWith(LowerStr(s), KwTextarea)

\* The locator handed back: the rule that produced it, the Playwright call,
\* and the text passed to it.
Loc(rule, via, text) == [rule |-> rule, via |-> via, text |-> text]

\* What count() on a locator gives: a number, or it raises.
CountResults == {0, 1, 2, -1}

\* Faulty variant of _get_robust_locator: the label rule is tried before the
\* contains rule.
LabelFirstLocator(s, work_log, exact) ==
    IF IsTextarea(s)
    THEN IF work_log = -1 THEN Threw(DriverError("count"))
         ELSE IF work_log = 1 THEN Returned(Loc("textarea", "locator", <<"#">>))
         ELSE Returned(Loc("textarea", "locator.first", <<"t">>))
    ELSE IF LabelAt(s) # {}
    THEN Returned(Loc("label", "get_by_label", LabelText(s)))
    ELSE IF ContainsAt(s) # {}
    THEN Returned(Loc("contains", "get_by_text", ContainsText(s)))
    ELSE IF TextMatch(s)
    THEN Returned(Loc("text", "get_by_text exact", TextText(s)))
    ELSE Returned(Loc("css", "locator", s))

\* _get_robust_locator(page, selector); work_log and exact are what the two
\* count() calls of the function find on the page.
_get_robust_locator(s, work_log, exact) ==
    IF IsTextarea(s)
    THEN IF work_log = -1 THEN Threw(DriverError("count"))
         ELSE IF work_log = 1 THEN Returned(Loc("textarea", "locator", <<"#">>))
         ELSE Returned(Loc("textarea", "locator.first", <<"t">>))
    ELSE IF ContainsAt(s) # {}
    THEN IF ElementType(s) = <<"a">>
         THEN Returned(Loc("contains", "locator.first", ContainsText(s)))
         ELSE IF ElementType(s) = <<"b", "u", "t", "t", "o", "n">>
         THEN IF exact > 0
              THEN Returned(Loc("contains", "get_by_role exact", ContainsText(s)))
              ELSE Returned(Loc("contains", "get_by_role", ContainsText(s)))
         ELSE Returned(Loc("contains", "get_by_text", ContainsText(s)))
    ELSE IF LabelAt(s) # {}
    THEN Returned(Loc("label", "get_by_label", LabelText(s)))
    ELSE IF TextMatch(s)
    THEN Returned(Loc("text", "get_by_text exact", TextText(s)))
    ELSE Returned(Loc("css", "locator", s))

\* The pieces selectors are put together from.
SelPieces ==
    { KwTextarea,
      <<"t", "e", "x", "t", "A", "r", "e", "a">>,
      <<"a">>,
      <<"b", "u", "t", "t", "o", "n">>,
      <<"#">>,
      <<"'">>,
      KwContains \o <<"'", "x", "'", ")">>,
      KwLabel \o <<"\"", "x", "\"", "]">>,
      KwText \o <<"'", "x", "'">> }

RECURSIVE Flatten(_)
Flatten(ss) == IF ss = <<>> THEN <<>> ELSE Head(ss) \o Flatten(Tail(ss))

Selectors == {Flatten(ss) : ss \in SeqsUpTo(SelPieces, MaxSelPieces)} \ {<<>>}

ResolveInit ==
    /\ NoRun
    /\ credentials = DefaultCredentials
    /\ pc = "resolve"
    /\ arg \in Selectors
    /\ ret = <<>>
    /\ log = <<>>
    /\ delivered = <<>>
    /\ is_combobox = FALSE
    /\ runs = <<>>
    /\ fs = {}
    /\ planner = NoPlanner

\* One call of _get_robust_locator on the page as it is.
ResolveCall(work_log, exact) ==
    /\ pc = "resolve"
    /\ ret' = _get_robust_locator(arg, work_log, exact)
    /\ pc' = "resolve_done"
    /\ UNCHANGED <<cfgvars, ip, step_num, todo, exc, outcome, calls, artifacts,
                   resvars, histvars, retryvars, guardvars, credentials, arg,
                   fillvars, parvars, planner>>

ResolveNext == \E work_log, exact \in CountResults : ResolveCall(work_log, exact)

SpecResolve == ResolveInit /\ [][ResolveNext]_vars

\* --------------------------------------------------------- plan_with_bedrock
\* How one pass of the loop can end: the model answers with a plan, with a
\* plan inside other text, with text that holds no JSON object, with a JSON
\* object that is no plan, or with a body that cannot be decoded; or
\* invoke_model raises a ClientError with one of the codes below, a
\* BotoCoreError, or something else.
PlannerOutcomes ==
    {"plan", "embedded_plan", "no_json", "bad_plan", "bad_body",
     "ThrottlingException", "ValidationException", "ModelNotReadyException",
     "ServiceUnavailableException", "InternalServerException",
     "AccessDeniedException", "BotoCoreError", "KeyError"}

\* Faulty variant of PlannerHandler: a response without a JSON object is
\* handled like an unexpected error.
PlannerHandlerParseRetried(o) ==
    CASE o \in {"plan", "embedded_plan"} -> "return"
      [] o \in {"bad_plan", "bad_body"} -> "raise ValueError"
      [] o = "ValidationException" -> "raise ValueError"
      [] o = "AccessDeniedException" -> "raise"
      [] OTHER -> "retry"

\* What the try statement does with the outcome: the function returns, the
\* handler re-raises or raises a ValueError, or the handler retries while
\* attempts are left and raises RuntimeError when none is.
PlannerHandler(o) ==
    CASE o \in {"plan", "embedded_plan"} -> "return"
      [] o \in {"no_json", "bad_plan", "bad_body"} -> "raise"
      [] o = "ValidationException" -> "raise ValueError"
      [] o \in {"ThrottlingException", "ModelNotReadyException",
                "ServiceUnavailableException", "InternalServerException"} -> "retry"
      [] o = "BotoCoreError" -> "retry"
      [] o \in {"AccessDeniedException"} -> "raise"
      [] OTHER -> "retry"

\* The class of the exception an outcome is, as raised inside the try.
PlannerExcKind(o) ==
    CASE o \in {"no_json", "bad_plan", "bad_body"} -> "ValueError"
      [] o = "BotoCoreError" -> "BotoCoreError"
      [] o = "KeyError" -> "KeyError"
      [] OTHER -> "ClientError"

PlannerInit ==
    /\ NoRun
    /\ credentials = DefaultCredentials
    /\ pc = "planner"
    /\ arg = <<>>
    /\ ret = <<>>
    /\ log = <<>>
    /\ delivered = <<>>
    /\ is_combobox = FALSE
    /\ runs = <<>>
    /\ fs = {}
    /\ \E n \in 0..MaxAttempts : planner = [NoPlanner EXCEPT !.max_retries = n]

plannerrest == <<cfgvars, pc, ip, step_num, todo, exc, outcome, calls, artifacts,
                 resvars, histvars, retryvars, guardvars, credentials, arg, ret,
                 fillvars, parvars>>

\* One pass of `for attempt in range(max_retries)`: invoke_model is called
\* and the response, or the exception, is handled.
PlannerIter(o) ==
    /\ pc = "planner"
    /\ planner.res = Running
    /\ planner.attempt < planner.max_retries
    /\ LET h == PlannerHandler(o)
           logged == [planner EXCEPT !.log = Append(@, o)]
       IN  planner' =
             CASE h = "return" ->
                    [logged EXCEPT !.res = Returned(<<"P">>)]
               [] h = "raise" ->
                    [logged EXCEPT !.res = Threw(Fault(PlannerExcKind(o), o, planner.attempt))]
               [] h = "raise ValueError" ->
                    [logged EXCEPT !.res = Threw(Fault("ValueError", o, planner.attempt))]
               [] OTHER ->
                    IF planner.attempt < planner.max_retries - 1
                    THEN [logged EXCEPT !.sleeps = Append(@, 2 ^ planner.attempt),
                                        !.attempt = NextAttempt(@)]
                    ELSE [logged EXCEPT !.res = Threw(Fault("RuntimeError", o, planner.attempt))]
    /\ UNCHANGED plannerrest

\* The loop is used up without a return or a raise: the raise after it.
PlannerFallsThrough ==
    /\ pc = "planner"
    /\ planner.res = Running
    /\ planner.attempt >= planner.max_retries
    /\ planner' = [planner EXCEPT
                      !.res = Threw(Fault("RuntimeError", "Failed to generate plan", 0))]
    /\ UNCHANGED plannerrest

PlannerNext ==
    \/ \E o \in PlannerOutcomes : PlannerIter(o)
    \/ PlannerFallsThrough

SpecPlanner == PlannerInit /\ [][PlannerNext]_vars

\* ============================================================== properties
\* Positions in `calls` of the calls of `op` made for step k.
CallsAt(k, op) == {i \in 1..Len(calls) : calls[i].op = op /\ calls[i].step = k}

\* Step k is a navigate whose URL the Domain Guard rejects.
DeniedNav(k) ==
    /\ plan[k].type = "navigate"
    /\ ~Falsy(plan[k].value)
    /\ ~_domain_allowed(plan[k].value, ALLOWED_DOMAINS)

\* C1: every page.goto of a step comes after that step's Domain Guard check,
\* and a navigate step whose URL the guard rejects fails with the "Domain not
\* allowed" fault, makes no page.goto call, writes no step_<NN>_navigate.png
\* and makes the run raise.
C1_GuardBeforeNavigation ==
    /\ \A i \in 1..Len(calls) :
          calls[i].op = "goto" =>
             \E j \in 1..(i - 1) : calls[j] = Call("_domain_allowed", calls[i].step)
    /\ \A k \in 1..step_num :
          DeniedNav(k) =>
             /\ failed_step = k
             /\ first_fault = Fault("ValueError", "Domain not allowed", 0)
             /\ CallsAt(k, "goto") = {}
             /\ File(k, "navigate") \notin artifacts
             /\ outcome # "returned"
             /\ pc = "done" => outcome = "raised"

\* A run ended on a rejected URL at step 2, after a step 1 that did navigate.
C1_Witness ==
    /\ pc = "done"
    /\ step_num = 2
    /\ DeniedNav(2)
    /\ CallsAt(1, "goto") # {}
    /\ File(1, "navigate") \in artifacts

\* The teardown calls made so far, in order.
TeardownLog ==
    LET td == SelectSeq(calls, LAMBDA c : c.op \in {TeardownCalls[i] : i \in 1..4})
    IN  [i \in 1..Len(td) |-> td[i].op]

\* The try block was entered: the `finally` block has started.
LoopEntered == CallsAt(0, "tracing.stop") # {}

\* C2: a run that entered the step loop has, when run_plan is left, made the
\* four teardown calls tracing.stop, page.close, context.close, browser.close
\* exactly once each and in this order, whatever raised before.
C2_TeardownComplete ==
    (pc = "done" /\ LoopEntered) => TeardownLog = TeardownCalls

\* C3: when run_plan is left, every browser, context and page the run opened
\* has been closed by an explicit close() call.
C3_AllClosed == pc = "done" => open \subseteq closed

AllStepsSucceeded ==
    /\ dispatched = [i \in 1..Len(plan) |-> i]
    /\ completed = 1..Len(plan)

\* C5: a run that entered the step loop returns normally exactly when every
\* action was dispatched once, in order, and every step succeeded; otherwise
\* it raises.
C5_ReturnsIffAllSucceeded ==
    (pc = "done" /\ LoopEntered) =>
       /\ outcome \in {"returned", "raised"}
       /\ outcome = "returned" <=> AllStepsSucceeded

\* C6: the exception an aborted run surfaces is the one its failed step
\* raised (same kind, same message), and it surfaces after the teardown.
C6_FirstFaultSurfaced ==
    (pc = "done" /\ failed_step # 0) =>
       /\ outcome = "raised"
       /\ exc.kind = first_fault.kind
       /\ exc.msg = first_fault.msg
       /\ LoopEntered

\* ------------------------------------------------ the retry controller
\* The current (or last) _retry_action call saw only timeouts so far.
AllTimeouts == \A i \in 1..Len(retry_log) : retry_log[i] = "timeout"

\* The function that call retries, and the step it belongs to.
RetriedOp == retry_at.op

RetryStep == retry_at.step

\* C7: with MAX_RETRIES >= 1, an operation that has timed out k times,
\* k <= MAX_RETRIES - 1, is invoked again, and when that invocation succeeds
\* _retry_action returns its value after exactly k + 1 invocations.
C7_RetryThenSuccess ==
    (retry_log # <<>> /\ MAX_RETRIES >= 1) =>
       LET n == Len(retry_log)
       IN  /\ (AllTimeouts /\ n <= MAX_RETRIES - 1) =>
                  /\ retry_res = Running
                  /\ pc = "retry"
                  /\ attempt = n
           /\ (retry_log[n] = "ok" /\ \A i \in 1..(n - 1) : retry_log[i] = "timeout") =>
                  /\ n <= MAX_RETRIES
                  /\ retry_res = Returned(RetVal(RetriedOp, n - 1))
                  /\ Cardinality(CallsAt(RetryStep, RetriedOp)) = n
                  /\ failed_step = RetryStep => first_fault.msg # RetriedOp

\* An operation succeeded on its last permitted attempt, after timeouts.
C7_Witness ==
    /\ MAX_RETRIES >= 2
    /\ Len(retry_log) = MAX_RETRIES
    /\ retry_log[MAX_RETRIES] = "ok"
    /\ retry_res.kind = "return"

\* C8: a non-timeout error of func() ends _retry_action at once: it is the
\* last invocation, the exception that leaves is the one func() raised, no
\* sleep follows it, and it fails the step.  A validation, security or
\* assertion fault fails its step without any call being repeated.
C8_NonTimeoutFailsFast ==
    /\ \A i \in 1..Len(retry_log) :
          retry_log[i] = "error" =>
             /\ i = Len(retry_log)
             /\ retry_res = Threw(Raised(RetriedOp, "Error", i - 1))
             /\ Cardinality(CallsAt(RetryStep, RetriedOp)) = i
             /\ Len(sleeps) = i - 1
             /\ failed_step = RetryStep
             /\ first_fault = Raised(RetriedOp, "Error", i - 1)
    /\ (failed_step # 0 /\ first_fault.kind \in {"ValueError", "AssertionError"}) =>
          /\ \A op \in RetriedOps : CallsAt(failed_step, op) = {}
          /\ \A i, j \in 1..Len(calls) :
                (calls[i] = calls[j] /\ calls[i].step = failed_step
                   /\ calls[i].op # "screenshot") => i = j

\* A non-timeout error on a later attempt, after a timeout was retried.
C8_Witness ==
    /\ Len(retry_log) >= 2
    /\ retry_log[Len(retry_log)] = "error"
    /\ pc = "done"

\* C9: an operation that times out on every attempt is invoked MAX_RETRIES
\* times and no more, and the timeout of the last attempt is the exception
\* that leaves _retry_action and fails the step.
C9_Exhaustion ==
    /\ Len(retry_log) <= MAX_RETRIES
    /\ (retry_log # <<>> /\ AllTimeouts) =>
          IF Len(retry_log) < MAX_RETRIES
          THEN retry_res = Running /\ pc = "retry"
          ELSE /\ retry_res = Threw(Raised(RetriedOp, "TimeoutError", MAX_RETRIES - 1))
               /\ Cardinality(CallsAt(RetryStep, RetriedOp)) = MAX_RETRIES
               /\ failed_step = RetryStep
               /\ first_fault = Raised(RetriedOp, "TimeoutError", MAX_RETRIES - 1)
               /\ pc \in {"except", "finally", "done"}

\* Every permitted attempt timed out.
C9_Witness ==
    /\ MAX_RETRIES >= 2
    /\ Len(retry_log) = MAX_RETRIES
    /\ AllTimeouts
    /\ retry_res.kind = "raise"

\* ------------------------------------------------------- the Domain Guard
\* C10: _domain_allowed(url) is false for a malformed URL and for a URL
\* without a hostname, and otherwise true exactly when the lowercased
\* hostname ends with an entry of ALLOWED_DOMAINS.
C10_SuffixMatchFailClosed ==
    pc = "guard_done" =>
       IF UrlMalformed(guard_url) \/ Hostname(guard_url) = None
       THEN guard_res = FALSE
       ELSE guard_res <=>
               \E i \in 1..Len(ALLOWED_DOMAINS) :
                  EndsWith(Hostname(guard_url), ALLOWED_DOMAINS[i])

\* --------------------------------------------------- the credential helpers
\* The placeholder of a credential of the map that `s` starts with, if any.
KnownAt(s, creds) ==
    {i \in 1..Len(creds) :
        /\ Len(s) >= Len(Placeholder(creds[i].key))
        /\ SubSeq(s, 1, Len(Placeholder(creds[i].key))) = Placeholder(creds[i].key)}

\* One simultaneous substitution over the original value: every placeholder
\* of the value with a known name is replaced, and the text put in its place
\* is not looked at again.
RECURSIVE SimSubst(_, _)
SimSubst(s, creds) ==
    IF s = <<>> THEN s
    ELSE IF KnownAt(s, creds) # {}
         THEN LET i == CHOOSE j \in KnownAt(s, creds) : TRUE
              IN  creds[i].val
                  \o SimSubst(SubSeq(s, Len(Placeholder(creds[i].key)) + 1, Len(s)), creds)
         ELSE <<s[1]>> \o SimSubst(Tail(s), creds)

\* C13: the result of injectCredentials equals one simultaneous substitution
\* of the known placeholders over the original value (placeholders with
\* unknown names untouched, text introduced by a secret not substituted again).
C13_SimultaneousSubstitution ==
    pc = "inject_done" => ret = SimSubst(arg, credentials)

\* C14: mask(s) has the length of s, is made of the masking symbol only,
\* shares no character with s, and the mask of the empty string is empty.
C14_MaskOpaque ==
    pc = "mask_done" =>
        /\ Len(ret) = Len(arg)
        /\ \A i \in 1..Len(ret) : ret[i] = Bullet
        /\ \A i \in 1..Len(ret) : \A j \in 1..Len(arg) : ret[i] # arg[j]
        /\ (arg = <<>> => ret = <<>>)

\* --------------------------------------------------------- the fill handler
\* The secrets of the credential map substituted into the fill value.
SubstitutedSecrets ==
    {credentials[i].val : i \in {j \in 1..Len(credentials) :
        IsSubstr(Placeholder(credentials[j].key), OrEmpty(plan[1].value))}}

\* C11: a secret substituted into a fill value from the credential map,
\* whatever the name of its entry, appears in no log line and in no artifact
\* file name of the run.
C11_SecretNeverLogged ==
    \A secret \in SubstitutedSecrets :
        secret # <<>> =>
            /\ \A i \in 1..Len(log) : \A j \in 1..Len(log[i].fields) :
                    ~IsSubstr(secret, log[i].fields[j])
            /\ \A f \in artifacts : ~IsSubstr(secret, f.masked)

\* The value the fill handler computes at line 185.
FillValue == _inject_credentials(OrEmpty(plan[1].value), credentials)

\* The calls that hand the value to the browser: locator.type on the
\* combobox path (after locator.fill("") has emptied the field) and
\* locator.fill on the plain path.
ValueDeliveries ==
    {i \in 1..Len(delivered) :
        delivered[i].op = "type" \/ ~delivered[i].combobox}

\* C12: on the plain and on the combobox path and on every attempt, the text
\* handed to the browser is exactly the injected value, not its masked
\* display form; the only other text is the empty string that empties a
\* combobox before typing.
C12_DeliveredUnmasked ==
    \A i \in 1..Len(delivered) :
        IF i \in ValueDeliveries
        THEN delivered[i].text = FillValue
        ELSE delivered[i].op = "fill" /\ delivered[i].text = <<>>

\* A sensitive value whose mask differs from it was delivered on a retry, on
\* both paths, and the step completed.
C12_Witness ==
    /\ pc = "fill_done"
    /\ IsSensitive(plan[1].value)
    /\ _mask(FillValue) # FillValue
    /\ \E i, j \in ValueDeliveries :
            /\ delivered[i].combobox /\ ~delivered[j].combobox
            /\ delivered[i].attempt # delivered[j].attempt

\* ------------------------------------------------------ steps and artifacts
DispatchedSteps == {dispatched[i] : i \in 1..Len(dispatched)}

\* The browser-driver calls made for step k, the failure screenshot included.
DriverCalls(k) ==
    {i \in 1..Len(calls) : calls[i].step = k /\ calls[i].op # "_domain_allowed"}

SuccessShots(k) == {f \in artifacts : f.step = k /\ f.name # "FAILURE"}

FailureShots == {f \in artifacts : f.name = "FAILURE"}

\* C15: every step that completed, whatever its type, wrote exactly one
\* success screenshot, named after the step index and the action type, by
\* the time it is complete.
C15_OneSuccessScreenshot ==
    \A k \in completed :
        /\ SuccessShots(k) = {File(k, ShotName(plan[k]))}
        /\ Cardinality(CallsAt(k, "screenshot")) = 1

\* C16: with SCREENSHOT_ON_FAILURE a run that failed at step k has written
\* exactly one failure screenshot, the one of step k, next to the success
\* screenshots of the steps before k; a run that returned has written none,
\* and none is written when SCREENSHOT_ON_FAILURE is off.
C16_FailureScreenshot ==
    /\ (SCREENSHOT_ON_FAILURE /\ failed_step # 0 /\ pc \in {"finally", "done"}) =>
            /\ FailureShots = {File(failed_step, "FAILURE")}
            /\ \A j \in 1..(failed_step - 1) :
                    SuccessShots(j) = {File(j, ShotName(plan[j]))}
    /\ (outcome = "returned") => FailureShots = {}
    /\ ~SCREENSHOT_ON_FAILURE => FailureShots = {}

\* The field the specification's table requires for the type is missing.
MissingField(a) ==
    \/ a.type = "navigate" /\ Falsy(a.value)
    \/ a.type \in {"fill", "select"} /\ (Falsy(a.selector) \/ Falsy(a.value))
    \/ a.type \in {"click", "wait_for_selector"} /\ Falsy(a.selector)
    \/ a.type = "assert_title" /\ Falsy(a.value)

\* C17: a dispatched action that misses a required field fails its step with
\* a validation fault, raised before any driver call for the step and without
\* the retry controller being entered for it.
C17_MissingFieldFault ==
    \A k \in DispatchedSteps :
        MissingField(plan[k]) =>
            /\ failed_step = k
            /\ first_fault.kind = "ValueError"
            /\ RetryStep # k
            /\ (pc = "except" => DriverCalls(k) = {})

\* C18: a step of an unrecognized type makes no driver call and raises no
\* fault; it is complete as soon as its (empty) handler is through, and the
\* run goes on to the next action of the plan.
C18_UnknownTypeNoOp ==
    \A k \in DispatchedSteps :
        plan[k].type \notin ActionTypes =>
            /\ DriverCalls(k) = {}
            /\ failed_step # k
            /\ (k \in completed \/ (pc = "handler" /\ step_num = k))
            /\ (k \in completed /\ k < Len(plan)) =>
                    \/ pc = "loop" /\ step_num = k
                    \/ k + 1 \in DispatchedSteps

\* A run returned after a step of an unrecognized type and the step after it.
C18_Witness ==
    /\ outcome = "returned"
    /\ \E k \in completed :
            /\ plan[k].type \notin ActionTypes
            /\ k + 1 \in completed
            /\ DriverCalls(k + 1) # {}

\* ------------------------------------------------------------ parallel runs
PathsOf(r) == {w.path : w \in {x \in fs : x.by = r}}

\* C19 as stated: whenever two runs execute side by side, no artifact path
\* written by one of them is written by the other.
C19_ExclusiveArtifacts == PathsOf(1) \cap PathsOf(2) = {}

\* C19, amended: two runs started in different working directories write no
\* artifact path in common.
C19_ExclusivePerWorkingDir ==
    runs[1].cwd # runs[2].cwd => PathsOf(1) \cap PathsOf(2) = {}

\* Two runs in different working directories have both finished, each having
\* written a step screenshot, a failure screenshot and the trace archive
\* under the same relative names.
C19_Witness ==
    /\ runs[1].cwd # runs[2].cwd
    /\ runs[1].pc = "done" /\ runs[2].pc = "done"
    /\ \A name \in {"click", "FAILURE", "trace.zip"} :
            \E w1, w2 \in fs :
                /\ w1.by = 1 /\ w2.by = 2
                /\ w1.path.file = w2.path.file
                /\ w1.path.file.name = name

\* -------------------------------------------------------------- termination
\* C20: provided every driver call returns or raises, every run reaches its
\* end (returned or raised); on the way _retry_action never invokes its
\* function more than MAX_RETRIES times and the loop enters no step twice.
C20_Terminates ==
    /\ <>(pc = "done")
    /\ [](Len(retry_log) <= MAX_RETRIES)
    /\ [](\A i, j \in 1..Len(dispatched) : dispatched[i] = dispatched[j] => i = j)

\* A run of a two-step plan has ended after a step used every attempt it had.
C20_Witness ==
    /\ pc = "done"
    /\ Len(plan) >= 2
    /\ Len(dispatched) = Len(plan)
    /\ MAX_RETRIES >= 2
    /\ Len(retry_log) = MAX_RETRIES

\* ------------------------------------------------------ the backoff schedule
\* The invocations of the current _retry_action call that timed out and were
\* not the last one permitted.
RetriedTimeouts ==
    {i \in 1..Len(retry_log) : retry_log[i] = "timeout" /\ i - 1 < MAX_RETRIES - 1}

\* C21: the i-th sleep of a _retry_action call follows the timeout of attempt
\* i - 1 and lasts RETRY_DELAY_MS * 2^(i-1) ms, so each delay is twice the
\* one before; there are as many sleeps as timeouts of attempts before the
\* last one, hence none after a success, after an error or after the final
\* attempt's timeout.
C21_BackoffSchedule ==
    /\ \A i \in 1..Len(sleeps) :
            /\ i \in RetriedTimeouts
            /\ sleeps[i] = RETRY_DELAY_MS * (2 ^ (i - 1))
            /\ i > 1 => sleeps[i] = 2 * sleeps[i - 1]
    /\ Len(sleeps) = Cardinality(RetriedTimeouts)
    /\ retry_res.kind # "running" => Len(sleeps) = Len(retry_log) - 1 \/ retry_log = <<>>

\* Every attempt of a call with at least three attempts timed out: two or
\* more sleeps were taken and none after the last timeout.
C21_Witness ==
    /\ MAX_RETRIES >= 3
    /\ Len(retry_log) = MAX_RETRIES
    /\ AllTimeouts
    /\ retry_res.kind = "raise"
    /\ Len(sleeps) = MAX_RETRIES - 1

\* ------------------------------------------------------ the locator resolver
\* The strategies in the order of the specification.
Priority == <<"textarea", "contains", "label", "text", "css">>

\* The rule of a strategy matches the pattern.
Matches(rule, s) ==
    CASE rule = "textarea" -> IsTextarea(s)
      [] rule = "contains" -> ContainsAt(s) # {}
      [] rule = "label"    -> LabelAt(s) # {}
      [] rule = "text"     -> TextMatch(s)
      [] OTHER             -> TRUE

\* C22: the locator handed back comes from the first strategy, in the order
\* escape hatch, contains, label, text, literal selector, whose rule matches
\* the pattern; a pattern matching no rule is used as a literal selector.
C22_FirstMatchWins ==
    pc = "resolve_done" =>
        IF ret.kind = "return"
        THEN /\ \E n \in 1..Len(Priority) :
                    /\ ret.val.rule = Priority[n]
                    /\ Matches(Priority[n], arg)
                    /\ \A m \in 1..(n - 1) : ~Matches(Priority[m], arg)
             /\ (\A m \in 1..4 : ~Matches(Priority[m], arg)) =>
                    ret.val = Loc("css", "locator", arg)
        ELSE Matches("textarea", arg)

\* A pattern matching both the contains rule and the label rule was resolved
\* by the contains rule.
C22_Witness ==
    /\ pc = "resolve_done"
    /\ ret.kind = "return"
    /\ ret.val.rule = "contains"
    /\ Matches("label", arg)

\* C23: _get_robust_locator hands back a locator and never raises, whatever
\* the pattern and whatever the page answers to a query made while resolving.
C23_ResolutionNeverRaises ==
    pc = "resolve_done" => ret.kind = "return"

\* --------------------------------------------------------------- the planner
RetryableOutcomes ==
    {"ThrottlingException", "ModelNotReadyException", "ServiceUnavailableException",
     "InternalServerException", "BotoCoreError", "KeyError"}

FatalOutcomes ==
    {"no_json", "bad_plan", "bad_body", "ValidationException", "AccessDeniedException"}

\* C24: plan_with_bedrock invokes the model at most max_retries times; when
\* every invocation failed with a retryable error it raises RuntimeError after
\* exactly max_retries invocations; an unparseable response, a
\* ValidationException or a ClientError with another code ends the call by
\* an exception other than RuntimeError, with no invocation after it.
C24_PlannerRetries ==
    /\ Len(planner.log) <= planner.max_retries
    /\ (planner.res # Running /\
        \A i \in 1..Len(planner.log) : planner.log[i] \in RetryableOutcomes) =>
            /\ planner.res.kind = "raise"
            /\ planner.res.exc.kind = "RuntimeError"
            /\ Len(planner.log) = planner.max_retries
    /\ \A i \in 1..Len(planner.log) :
            planner.log[i] \in FatalOutcomes =>
                /\ i = Len(planner.log)
                /\ planner.res.kind = "raise"
                /\ planner.res.exc.kind \in {"ValueError", "ClientError"}

\* Three or more invocations, a BotoCoreError and an unexpected exception
\* among them, all failed with a retryable error and the call has raised.
C24_Witness ==
    /\ planner.max_retries >= 3
    /\ Len(planner.log) = planner.max_retries
    /\ \A i \in 1..Len(planner.log) : planner.log[i] \in RetryableOutcomes
    /\ \E i, j \in 1..Len(planner.log) :
            planner.log[i] = "BotoCoreError" /\ planner.log[j] = "KeyError"
    /\ planner.res.kind = "raise"

\* ------------------------------------------------- returning without success
\* C25: for every MAX_RETRIES the configuration can supply, 0 included,
\* _retry_action returns normally only when func was invoked at least once
\* and its last invocation succeeded; and every retried operation of a step
\* reported as completed was invoked for that step.
C25_ReturnsOnlyAfterSuccess ==
    /\ retry_res.kind = "return" =>
            /\ retry_log # <<>>
            /\ retry_log[Len(retry_log)] = "ok"
    /\ \A k \in completed :
            \A i \in 1..Len(HandlerCalls(plan[k])) :
                HandlerCalls(plan[k])[i] \in RetriedOps =>
                    \E j \in 1..Len(calls) : calls[j] = Call(HandlerCalls(plan[k])[i], k)

====
